---- MODULE Spec2Model ----
(***************************************************************************)
(* Model of the HTTP front end of go-practice: the Server of               *)
(* GoWork/http/server.go (listener selection, Open/Close lifecycle, the    *)
(* Scheme/Port/URL accessors) and the per-request normalisation done by    *)
(* Server.serveHTTP before the request is handed to the router; and the    *)
(* host process that owns a Server: func main, Main.Run and Main.Close of  *)
(* the two main packages.                                                  *)
(*                                                                         *)
(* Strings of the program that the code inspects character by character    *)
(* (the URL path) are sequences of tokens: "/" and "." are the two         *)
(* characters path.Ext looks for, every other token is a run of            *)
(* characters holding neither.                                             *)
(***************************************************************************)
EXTENDS Integers, Sequences, FiniteSets, TLC

VARIABLES
    Addr,        \* Server.Addr
    Domain,      \* Server.Domain
    ln,          \* Server.ln: 0 is nil, otherwise an index into lns
    lns,         \* every listener created so far (the heap of net.Listener)
    serve,       \* serve[i]: the goroutine running server.Serve(lns[i])
    inShutdown,  \* http.Server's inShutdown flag
    active,      \* connections accepted whose handler has not finished
    other,       \* the port another process holds (0: none)
    pc,          \* where the host's thread is
    lastOp,      \* the Server operation the host completed last
    result,      \* what that operation returned
    closeErr,    \* Shutdown's lnerr, kept while Close is waiting
    polledBusy,  \* Shutdown has polled and found active connections
    req,         \* the inbound request last handed to serveHTTP
    routed,      \* the request serveHTTP handed to the router for it
    routerCalls, \* calls of s.router.ServeHTTP made for req
    now,         \* seconds elapsed on the context of the last Close
    doneAt,      \* value of now when a handler last returned during or
                 \* after that Close (-1: none has)
    prog,        \* the main package that runs ("": the Server on its own)
    hpc,         \* where func main is
    c,           \* signals buffered in the channel c of func main
    sigpc,       \* the goroutine func() { <-c; cancel() }
    interrupts,  \* interrupt signals sent to the process so far
    ctxDone,     \* cancel() has been called: ctx.Done() is closed
    runErr,      \* what Main.Run returned
    mcResult,    \* what Main.Close returned
    exitCode,    \* exit status of the process (-1 while it runs)
    mainCloseCalls, \* calls of Main.Close
    srvCloseCalls,  \* calls of HTTPServer.Close
    dbCloseCalls,   \* calls of DB.Close
    db,          \* the postgres.DB of Main
    redirect     \* the goroutine running ListenAndServeTLSRedirect

clockVars == <<now, doneAt>>

hostVars == <<prog, hpc, c, sigpc, interrupts, ctxDone, runErr, mcResult,
              exitCode, mainCloseCalls, srvCloseCalls, dbCloseCalls, db,
              redirect>>

vars == <<Addr, Domain, ln, lns, serve, inShutdown, active, other, pc,
          lastOp, result, closeErr, polledBusy, req, routed, routerCalls,
          now, doneAt, prog, hpc, c, sigpc, interrupts, ctxDone, runErr,
          mcResult, exitCode, mainCloseCalls, srvCloseCalls, dbCloseCalls,
          db, redirect>>

serverVarsButActive == <<Addr, Domain, ln, lns, serve, inShutdown, other, pc,
                         lastOp, result, closeErr, polledBusy>>

serverVars == <<Addr, Domain, ln, lns, serve, inShutdown, active, other, pc,
                lastOp, result, closeErr, polledBusy>>

----------------------------------------------------------------------------
(* Bounds of the model. *)

MaxPathLen == 5      \* tokens in an inbound URL path
MaxListeners == 2    \* listeners created over the life of one Server
MaxActive == 1       \* connections in flight at once
MaxInterrupts == 2   \* interrupt signals sent to the process

----------------------------------------------------------------------------
(* Requests. *)

Absent == "<absent>"

Methods == {"GET", "POST", "PUT", "PATCH", "DELETE"}

\* Values the body's _method field is given ("" when the body has none).
FormValues == {"", "GET", "POST", "PUT", "PATCH", "DELETE", "delete"}

FormContentType == "application/x-www-form-urlencoded"

AcceptValues == {Absent, "text/html"}

ContentTypeValues == {Absent, FormContentType}

PathTokens == {"/", ".", "x", "json", "csv"}

RECURSIVE SeqsUpTo(_, _)
SeqsUpTo(S, n) ==
    IF n = 0 THEN {<<>>}
    ELSE LET shorter == SeqsUpTo(S, n - 1)
         IN  shorter \cup {Append(s, t) : s \in {u \in shorter : Len(u) = n - 1}, t \in S}

\* Request paths are absolute.
Paths == {p \in SeqsUpTo(PathTokens, MaxPathLen) : Len(p) > 0 /\ p[1] = "/"}

Requests ==
    [Method : Methods, BodyMethod : FormValues, Path : Paths,
     Accept : AcceptValues, ContentType : ContentTypeValues]

NoRequest == [Method |-> "", BodyMethod |-> "", Path |-> <<>>,
              Accept |-> Absent, ContentType |-> Absent]

\* Paths with two suffixes, one after the other: /x.csv.json and
\* /x.json.csv.
LongPaths ==
    { <<"/", "x", ".", "csv", ".", "json">>,
      <<"/", "x", ".", "json", ".", "csv">> }

LongRequests ==
    [Method : Methods, BodyMethod : FormValues, Path : LongPaths,
     Accept : AcceptValues, ContentType : ContentTypeValues]

\* The requests the lifecycle specification serves.
SampleRequests ==
    { [Method |-> "GET", BodyMethod |-> "", Path |-> <<"/", "x">>,
       Accept |-> Absent, ContentType |-> Absent],
      [Method |-> "POST", BodyMethod |-> "DELETE", Path |-> <<"/", "x", ".", "json">>,
       Accept |-> "text/html", ContentType |-> FormContentType] }

\* http.Request.PostFormValue("_method"): the body is parsed as a form only
\* for POST, PUT and PATCH with a form content type; errors are ignored and
\* a missing field yields "".
PostFormValue(r) ==
    IF r.Method \in {"POST", "PUT", "PATCH"} /\ r.ContentType = FormContentType
    THEN r.BodyMethod
    ELSE ""

\* path.Ext: scan from the end down to the last "/", return the suffix
\* starting at the first "." met, "" if none.
RECURSIVE ExtFrom(_, _)
ExtFrom(p, i) ==
    IF i < 1 \/ p[i] = "/" THEN <<>>
    ELSE IF p[i] = "." THEN SubSeq(p, i, Len(p))
    ELSE ExtFrom(p, i - 1)

Ext(p) == ExtFrom(p, Len(p))

HasSuffix(p, suffix) ==
    /\ Len(suffix) <= Len(p)
    /\ SubSeq(p, Len(p) - Len(suffix) + 1, Len(p)) = suffix

\* strings.TrimSuffix
TrimSuffix(p, suffix) ==
    IF HasSuffix(p, suffix) THEN SubSeq(p, 1, Len(p) - Len(suffix)) ELSE p

DotJson == <<".", "json">>
DotCsv == <<".", "csv">>

\* The override applied whatever the request's method is.
OverrideMethod_AnyMethod(r) ==
    IF PostFormValue(r) \in {"GET", "POST", "PATCH", "DELETE"}
    THEN [r EXCEPT !.Method = PostFormValue(r)]
    ELSE r

\* Lines 86-91 of serveHTTP: the method override.
OverrideMethod(r) ==
    IF r.Method = "POST" /\ PostFormValue(r) \in {"GET", "POST", "PATCH", "DELETE"}
    THEN [r EXCEPT !.Method = PostFormValue(r)]
    ELSE r

\* The .json rewrite with the Content-Type header forgotten.
RewriteJson_AcceptOnly(r) ==
    [r EXCEPT !.Accept = "application/json",
              !.Path = TrimSuffix(r.Path, DotJson)]

\* The .csv rewrite setting both headers, as the .json one does.
RewriteCsv_BothHeaders(r) ==
    [r EXCEPT !.Accept = "text/csv",
              !.ContentType = "text/csv",
              !.Path = TrimSuffix(r.Path, DotCsv)]

\* The rewrite stripping an extension it does not know.
RewriteExt_StripAny(r) ==
    IF Ext(r.Path) = DotJson THEN
        [r EXCEPT !.Accept = "application/json",
                  !.ContentType = "application/json",
                  !.Path = TrimSuffix(r.Path, DotJson)]
    ELSE IF Ext(r.Path) = DotCsv THEN
        [r EXCEPT !.Accept = "text/csv",
                  !.Path = TrimSuffix(r.Path, DotCsv)]
    ELSE [r EXCEPT !.Path = TrimSuffix(r.Path, Ext(r.Path))]

\* Lines 93-101 of serveHTTP: the rewrite driven by the path's extension.
RewriteJson(r) ==
    [r EXCEPT !.Accept = "application/json",
              !.ContentType = "application/json",
              !.Path = TrimSuffix(r.Path, DotJson)]

RewriteCsv(r) ==
    [r EXCEPT !.Accept = "text/csv",
              !.Path = TrimSuffix(r.Path, DotCsv)]

RewriteExt(r) ==
    IF Ext(r.Path) = DotJson THEN RewriteJson(r)
    ELSE IF Ext(r.Path) = DotCsv THEN RewriteCsv(r)
    ELSE r

\* serveHTTP rewriting the suffix before it reads the form field.
serveHTTP_SuffixFirst(r) == OverrideMethod(RewriteExt(r))

\* Server.serveHTTP: the request s.router.ServeHTTP receives.
serveHTTP(r) == RewriteExt(OverrideMethod(r))

----------------------------------------------------------------------------
(* The Server's accessors. *)

Domains == {"", "example.com", "go.dev"}

Addrs == {"", ":80", ":443", ":8080", "bad"}

Invalid == -1

\* The port net.Listen("tcp", a) is asked for: 0 for the empty address (the
\* system picks one), Invalid for an address that does not parse.
AddrPort(a) ==
    CASE a = ""      -> 0
      [] a = ":80"   -> 80
      [] a = ":443"  -> 443
      [] a = ":8080" -> 8080
      [] OTHER       -> Invalid

EphemeralPorts == {49152, 49153}

\* A listener: sock is the port its TCP socket is bound to, 0 when it has no
\* socket (autocert's listener keeps the error of its net.Listen for Accept).
Listener(kind, sock) == [kind |-> kind, sock |-> sock, closed |-> FALSE]

\* net.Listener.Addr().(*net.TCPAddr).Port: autocert's listener answers port
\* 443 when it has no socket.
AddrOf(l) == IF l.kind = "tls" /\ l.sock = 0 THEN 443 ELSE l.sock

\* TLS reported only once a listener exists.
UseTLS_OnceOpen == Domain # "" /\ ln # 0

UseTLS == Domain # ""

Scheme == IF UseTLS THEN "https" ELSE "http"

\* The port taken from the configured address instead of the listener.
Port_FromAddr == IF ln = 0 \/ AddrPort(Addr) = Invalid THEN 0 ELSE AddrPort(Addr)

\* The port of the listener's socket, without autocert's answer for a
\* listener that has none.
Port_SocketOnly == IF ln = 0 THEN 0 ELSE lns[ln].sock

Port == IF ln = 0 THEN 0 ELSE AddrOf(lns[ln])

URLWithPort(scheme, host, port) == <<scheme, "://", host, ":", ToString(port)>>

URLWithoutPort(scheme, host) == <<scheme, "://", host>>

\* The port suffix dropped for a default port of either scheme.
URL_AnyDefaultPort ==
    LET domain == IF Domain # "" THEN Domain ELSE "localhost"
    IN  IF Port = 80 \/ Port = 443
        THEN URLWithoutPort(Scheme, domain)
        ELSE URLWithPort(Scheme, domain, Port)

URL ==
    LET scheme == Scheme
        port == Port
        domain == IF Domain # "" THEN Domain ELSE "localhost"
    IN  IF (scheme = "http" /\ port = 80) \/ (scheme = "https" /\ port = 443)
        THEN URLWithoutPort(Scheme, domain)
        ELSE URLWithPort(Scheme, domain, Port)

----------------------------------------------------------------------------
(* The operating system's ports. *)

\* Ports held by a socket of this Server or by the other process.
PortsInUse ==
    {lns[i].sock : i \in {j \in DOMAIN lns : lns[j].sock # 0 /\ ~lns[j].closed}}
        \cup ({other} \ {0})

\* net.Listen("tcp", a): the ports the new socket may get; none is an error.
ListenPorts(a) ==
    IF AddrPort(a) = Invalid THEN {}
    ELSE IF AddrPort(a) = 0 THEN EphemeralPorts \ PortsInUse
    ELSE {AddrPort(a)} \ PortsInUse

----------------------------------------------------------------------------
(* The initial state: NewServer() has returned, nothing is bound. *)

ServerInit ==
    /\ Addr = ""
    /\ Domain = ""
    /\ ln = 0
    /\ lns = <<>>
    /\ serve = <<>>
    /\ inShutdown = FALSE
    /\ active = 0
    /\ other \in {0, 80, 443}
    /\ pc = "idle"
    /\ lastOp = "NewServer"
    /\ result = "none"
    /\ closeErr = "nil"
    /\ polledBusy = FALSE

ClockInit ==
    /\ now = 0
    /\ doneAt = -1

\* func main as it stands once NewMain has returned: the handler of
\* os.Interrupt is registered, its goroutine waits on c, nothing else has
\* run.
HostInit ==
    /\ c = 0
    /\ sigpc = "waiting"
    /\ interrupts = 0
    /\ ctxDone = FALSE
    /\ runErr = "none"
    /\ mcResult = "none"
    /\ exitCode = -1
    /\ mainCloseCalls = 0
    /\ srvCloseCalls = 0
    /\ dbCloseCalls = 0
    /\ db = "new"
    /\ redirect = "none"

\* The Server used on its own, by any caller.
NoHost ==
    /\ prog = ""
    /\ hpc = "none"
    /\ HostInit

Init ==
    /\ ServerInit
    /\ ClockInit
    /\ NoHost
    /\ req = NoRequest
    /\ routed = NoRequest
    /\ routerCalls = 0

----------------------------------------------------------------------------
(* The host sets the configuration fields (Main.Run copies them from the   *)
(* parsed configuration before it calls Open). The fields are left alone   *)
(* once a listener exists.                                                 *)

Configure(a, d) ==
    /\ pc = "idle"
    /\ lns = <<>>
    /\ <<a, d>> # <<Addr, Domain>>
    /\ Addr' = a
    /\ Domain' = d
    /\ lastOp' = "Configure"
    /\ result' = "none"
    /\ UNCHANGED <<ln, lns, serve, inShutdown, active, other, pc,
                   closeErr, polledBusy, req, routed, routerCalls>>
    /\ UNCHANGED clockVars

----------------------------------------------------------------------------
(* Server.Open, one action per step the serve loop can interleave with.    *)

\* Open returning an error when the TLS listener has no socket.
OpenListenTLS_FailsOnBind ==
    /\ pc = "idle"
    /\ Len(lns) < MaxListeners
    /\ Domain # ""
    /\ IF 443 \in PortsInUse
       THEN /\ ln' = 0
            /\ lastOp' = "Open"
            /\ result' = "CertificateError"
            /\ UNCHANGED <<lns, serve, pc>>
       ELSE /\ lns' = Append(lns, Listener("tls", 443))
            /\ serve' = Append(serve, "none")
            /\ ln' = Len(lns) + 1
            /\ pc' = "open_spawn"
            /\ UNCHANGED <<lastOp, result>>
    /\ UNCHANGED <<Addr, Domain, inShutdown, active, other,
                   closeErr, polledBusy, req, routed, routerCalls>>
    /\ UNCHANGED clockVars

\* Line 108: autocert.NewListener never fails; its net.Listen on :443 may.
OpenListenTLS ==
    /\ pc = "idle"
    /\ Len(lns) < MaxListeners
    /\ Domain # ""
    /\ lns' = Append(lns, Listener("tls", IF 443 \in PortsInUse THEN 0 ELSE 443))
    /\ serve' = Append(serve, "none")
    /\ ln' = Len(lns) + 1
    /\ pc' = "open_spawn"
    /\ UNCHANGED <<Addr, Domain, inShutdown, active, other, lastOp, result,
                   closeErr, polledBusy, req, routed, routerCalls>>
    /\ UNCHANGED clockVars

\* The listener kept in a local variable: s.ln is never assigned.
OpenListenPlain_Shadowed ==
    /\ pc = "idle"
    /\ Len(lns) < MaxListeners
    /\ Domain = ""
    /\ \E port \in ListenPorts(Addr) :
          lns' = Append(lns, Listener("tcp", port))
    /\ serve' = Append(serve, "none")
    /\ pc' = "open_spawn"
    /\ UNCHANGED <<Addr, Domain, ln, inShutdown, active, other, lastOp, result,
                   closeErr, polledBusy, req, routed, routerCalls>>
    /\ UNCHANGED clockVars

\* Line 110, net.Listen succeeded.
OpenListenPlain ==
    /\ pc = "idle"
    /\ Len(lns) < MaxListeners
    /\ Domain = ""
    /\ \E port \in ListenPorts(Addr) :
          lns' = Append(lns, Listener("tcp", port))
    /\ serve' = Append(serve, "none")
    /\ ln' = Len(lns) + 1
    /\ pc' = "open_spawn"
    /\ UNCHANGED <<Addr, Domain, inShutdown, active, other, lastOp, result,
                   closeErr, polledBusy, req, routed, routerCalls>>
    /\ UNCHANGED clockVars

\* The error of net.Listen dropped: Open reports success.
OpenListenFail_ReturnsNil ==
    /\ pc = "idle"
    /\ Domain = ""
    /\ ListenPorts(Addr) = {}
    /\ ln' = 0
    /\ lastOp' = "Open"
    /\ result' = "nil"
    /\ UNCHANGED <<Addr, Domain, lns, serve, inShutdown, active, other, pc,
                   closeErr, polledBusy, req, routed, routerCalls>>
    /\ UNCHANGED clockVars

\* Lines 110-112, net.Listen failed: s.ln is assigned the nil listener and
\* the error is returned.
OpenListenFail ==
    /\ pc = "idle"
    /\ Domain = ""
    /\ ListenPorts(Addr) = {}
    /\ ln' = 0
    /\ lastOp' = "Open"
    /\ result' = "BindError"
    /\ UNCHANGED <<Addr, Domain, lns, serve, inShutdown, active, other, pc,
                   closeErr, polledBusy, req, routed, routerCalls>>
    /\ UNCHANGED clockVars

\* Line 115: go s.server.Serve(s.ln)
OpenSpawn ==
    /\ pc = "open_spawn"
    /\ serve' = [serve EXCEPT ![ln] = "spawned"]
    /\ pc' = "open_return"
    /\ UNCHANGED <<Addr, Domain, ln, lns, inShutdown, active, other, lastOp,
                   result, closeErr, polledBusy, req, routed, routerCalls>>
    /\ UNCHANGED clockVars

\* Line 117: return nil
OpenReturn ==
    /\ pc = "open_return"
    /\ pc' = "idle"
    /\ lastOp' = "Open"
    /\ result' = "nil"
    /\ UNCHANGED <<Addr, Domain, ln, lns, serve, inShutdown, active, other,
                   closeErr, polledBusy, req, routed, routerCalls>>
    /\ UNCHANGED clockVars

----------------------------------------------------------------------------
(* http.Server.Serve(l), the goroutine Open spawns.                        *)

Tracked(i) == serve[i] = "accepting"

CloseListener(i) == [lns EXCEPT ![i].closed = TRUE]

\* Serve registering its listener whether or not the server is shutting
\* down.
ServeStart_IgnoresShutdown(i) ==
    /\ serve[i] = "spawned"
    /\ serve' = [serve EXCEPT ![i] = "accepting"]
    /\ lns' = lns
    /\ UNCHANGED <<Addr, Domain, ln, inShutdown, active, other, pc, lastOp,
                   result, closeErr, polledBusy, req, routed, routerCalls>>
    /\ UNCHANGED clockVars

\* Serve registers the listener unless the server is shutting down, in
\* which case it returns ErrServerClosed; its deferred l.Close() runs.
ServeStart(i) ==
    /\ serve[i] = "spawned"
    /\ IF inShutdown
       THEN /\ serve' = [serve EXCEPT ![i] = "closed"]
            /\ lns' = CloseListener(i)
       ELSE /\ serve' = [serve EXCEPT ![i] = "accepting"]
            /\ lns' = lns
    /\ UNCHANGED <<Addr, Domain, ln, inShutdown, active, other, pc, lastOp,
                   result, closeErr, polledBusy, req, routed, routerCalls>>
    /\ UNCHANGED clockVars

\* l.Accept() returns a connection; its goroutine reads the request and
\* calls the handler, serveHTTP.
ServeAccept(i, r) ==
    /\ Tracked(i)
    /\ ~lns[i].closed
    /\ lns[i].sock # 0
    /\ active < MaxActive
    /\ active' = active + 1
    /\ req' = r
    /\ routed' = serveHTTP(r)
    /\ routerCalls' = 1
    /\ UNCHANGED serverVarsButActive
    /\ UNCHANGED clockVars

\* The error Serve returns kept where the host reads the result of its
\* last call.
ServeAcceptError_ReportsError(i) ==
    /\ Tracked(i)
    /\ lns[i].closed \/ lns[i].sock = 0
    /\ serve' = [serve EXCEPT ![i] = IF inShutdown THEN "closed" ELSE "failed"]
    /\ lns' = CloseListener(i)
    /\ result' = IF inShutdown THEN result ELSE "ServeError"
    /\ UNCHANGED <<Addr, Domain, ln, inShutdown, active, other, pc, lastOp,
                   closeErr, polledBusy, req, routed, routerCalls>>
    /\ UNCHANGED clockVars

\* l.Accept() fails (the listener is closed, or autocert's listener has no
\* socket): Serve returns, ErrServerClosed when shutting down and the
\* error otherwise.
ServeAcceptError(i) ==
    /\ Tracked(i)
    /\ lns[i].closed \/ lns[i].sock = 0
    /\ serve' = [serve EXCEPT ![i] = IF inShutdown THEN "closed" ELSE "failed"]
    /\ lns' = CloseListener(i)
    /\ UNCHANGED <<Addr, Domain, ln, inShutdown, active, other, pc, lastOp,
                   result, closeErr, polledBusy, req, routed, routerCalls>>
    /\ UNCHANGED clockVars

\* The handler of a connection returns.
Finish ==
    /\ active > 0
    /\ active' = active - 1
    /\ doneAt' = IF inShutdown THEN now ELSE doneAt
    /\ UNCHANGED <<serverVarsButActive, req, routed, routerCalls, now>>

----------------------------------------------------------------------------
(* Server.Close: http.Server.Shutdown under a context that expires after   *)
(* ShutdownTimeout. Shutdown polls for connections in flight: at once,     *)
(* then each time its timer fires, until the context is done.              *)

\* const ShutdownTimeout = 1 * time.Second, in seconds.
ShutdownTimeout == 1

\* Close refusing a Server that has no listener.
CloseBegin_ErrIfUnopened ==
    /\ pc = "idle"
    /\ inShutdown' = TRUE
    /\ lns' = [i \in DOMAIN lns |->
                 IF Tracked(i) THEN [lns[i] EXCEPT !.closed = TRUE] ELSE lns[i]]
    /\ closeErr' = IF ln = 0 \/ \E i \in DOMAIN lns :
                         Tracked(i) /\ lns[i].kind = "tls" /\ lns[i].sock = 0
                   THEN "ListenError" ELSE "nil"
    /\ polledBusy' = FALSE
    /\ now' = 0
    /\ doneAt' = -1
    /\ pc' = "close_wait"
    /\ UNCHANGED <<Addr, Domain, ln, serve, active, other, lastOp, result,
                   req, routed, routerCalls>>

\* Shutdown setting its flag and leaving the listeners open.
CloseBegin_KeepListeners ==
    /\ pc = "idle"
    /\ inShutdown' = TRUE
    /\ closeErr' = "nil"
    /\ polledBusy' = FALSE
    /\ now' = 0
    /\ doneAt' = -1
    /\ pc' = "close_wait"
    /\ UNCHANGED <<Addr, Domain, ln, lns, serve, active, other, lastOp, result,
                   req, routed, routerCalls>>

\* Shutdown sets inShutdown and closes the registered listeners, keeping
\* the first error of a Close (autocert's listener returns the error of its
\* net.Listen).
CloseBegin ==
    /\ pc = "idle"
    /\ inShutdown' = TRUE
    /\ lns' = [i \in DOMAIN lns |->
                 IF Tracked(i) THEN [lns[i] EXCEPT !.closed = TRUE] ELSE lns[i]]
    /\ closeErr' = IF \E i \in DOMAIN lns :
                         Tracked(i) /\ lns[i].kind = "tls" /\ lns[i].sock = 0
                   THEN "ListenError" ELSE "nil"
    /\ polledBusy' = FALSE
    /\ now' = 0
    /\ doneAt' = -1
    /\ pc' = "close_wait"
    /\ UNCHANGED <<Addr, Domain, ln, serve, active, other, lastOp, result,
                   req, routed, routerCalls>>

\* Close returning without waiting for the connections in flight.
CloseReturn_NoDrain ==
    /\ pc = "close_wait"
    /\ pc' = "idle"
    /\ lastOp' = "Close"
    /\ result' = closeErr
    /\ UNCHANGED <<Addr, Domain, ln, lns, serve, inShutdown, active, other,
                   closeErr, polledBusy, req, routed, routerCalls>>
    /\ UNCHANGED clockVars

\* A poll finds no connection in flight: Shutdown returns lnerr.
CloseReturn ==
    /\ pc = "close_wait"
    /\ active = 0
    /\ pc' = "idle"
    /\ lastOp' = "Close"
    /\ result' = closeErr
    /\ UNCHANGED <<Addr, Domain, ln, lns, serve, inShutdown, active, other,
                   closeErr, polledBusy, req, routed, routerCalls>>
    /\ UNCHANGED clockVars

\* A poll finds a connection in flight: Shutdown waits for the next tick or
\* for the context.
ClosePollBusy ==
    /\ pc = "close_wait"
    /\ active > 0
    /\ ~polledBusy
    /\ polledBusy' = TRUE
    /\ UNCHANGED <<Addr, Domain, ln, lns, serve, inShutdown, active, other,
                   pc, lastOp, result, closeErr, req, routed, routerCalls>>
    /\ UNCHANGED clockVars

\* Time passes while Shutdown waits in its select, up to the deadline of
\* the context (line 121).
Tick ==
    /\ pc = "close_wait"
    /\ polledBusy
    /\ now < ShutdownTimeout
    /\ now' = now + 1
    /\ UNCHANGED <<serverVars, req, routed, routerCalls, doneAt>>

\* Close closing the connections in flight once the context has expired.
CloseTimeout_ForceClose ==
    /\ pc = "close_wait"
    /\ polledBusy
    /\ now = ShutdownTimeout
    /\ pc' = "idle"
    /\ lastOp' = "Close"
    /\ result' = "DeadlineExceeded"
    /\ active' = 0
    /\ UNCHANGED <<Addr, Domain, ln, lns, serve, inShutdown, other,
                   closeErr, polledBusy, req, routed, routerCalls>>
    /\ UNCHANGED clockVars

\* The context has expired while Shutdown waits: it returns ctx.Err(). The
\* connections in flight are left as they are.
CloseTimeout ==
    /\ pc = "close_wait"
    /\ polledBusy
    /\ now = ShutdownTimeout
    /\ pc' = "idle"
    /\ lastOp' = "Close"
    /\ result' = "DeadlineExceeded"
    /\ UNCHANGED <<Addr, Domain, ln, lns, serve, inShutdown, active, other,
                   closeErr, polledBusy, req, routed, routerCalls>>
    /\ UNCHANGED clockVars

----------------------------------------------------------------------------
(* The lifecycle specification. *)

Next ==
    \/ \E a \in Addrs, d \in Domains : Configure(a, d) /\ UNCHANGED hostVars
    \/ OpenListenTLS /\ UNCHANGED hostVars
    \/ OpenListenPlain /\ UNCHANGED hostVars
    \/ OpenListenFail /\ UNCHANGED hostVars
    \/ OpenSpawn /\ UNCHANGED hostVars
    \/ OpenReturn /\ UNCHANGED hostVars
    \/ \E i \in DOMAIN serve : ServeStart(i) /\ UNCHANGED hostVars
    \/ \E i \in DOMAIN serve, r \in SampleRequests :
          ServeAccept(i, r) /\ UNCHANGED hostVars
    \/ \E i \in DOMAIN serve : ServeAcceptError(i) /\ UNCHANGED hostVars
    \/ Finish /\ UNCHANGED hostVars
    \/ CloseBegin /\ UNCHANGED hostVars
    \/ CloseReturn /\ UNCHANGED hostVars
    \/ ClosePollBusy /\ UNCHANGED hostVars
    \/ Tick /\ UNCHANGED hostVars
    \/ CloseTimeout /\ UNCHANGED hostVars

Spec == Init /\ [][Next]_vars

----------------------------------------------------------------------------
(* The normaliser on its own: every request of the bounded set is handed   *)
(* to serveHTTP once.                                                      *)

InitNormalizer ==
    /\ ServerInit
    /\ other = 0
    /\ ClockInit
    /\ NoHost
    /\ req \in Requests \cup LongRequests
    /\ routed = NoRequest
    /\ routerCalls = 0

Dispatch ==
    /\ routed = NoRequest
    /\ routed' = serveHTTP(req)
    /\ routerCalls' = routerCalls + 1
    /\ UNCHANGED <<serverVars, req>>
    /\ UNCHANGED clockVars

NextNormalizer == Dispatch /\ UNCHANGED hostVars

SpecNormalizer == InitNormalizer /\ [][NextNormalizer]_vars

----------------------------------------------------------------------------
(* Properties of the accessors and of Open (checked under Spec).           *)

\* C1: Scheme() is "https" for every non-empty Domain and "http" for the
\* empty one, in every state of the Server: before Open, while it is open
\* and after Close.
C1_SchemeFollowsDomain ==
    /\ Domain # "" => Scheme = "https"
    /\ Domain = "" => Scheme = "http"

\* A Server with a Domain, closed after it was opened.
C1_Witness_ClosedWithDomain ==
    /\ lastOp = "Close"
    /\ lns # <<>>
    /\ Domain = "go.dev"
    /\ Scheme = "https"

\* C2: URL() is scheme://host without a port suffix exactly when the scheme
\* is http and the port 80, or the scheme https and the port 443; in every
\* other case, port 0 of a Server never opened included, it is
\* scheme://host:port. The host is Domain, or localhost when Domain is empty.
C2_URLPortSuffix ==
    LET https == Domain # ""
        scheme == IF https THEN "https" ELSE "http"
        host == IF https THEN Domain ELSE "localhost"
        omit == (~https /\ Port = 80) \/ (https /\ Port = 443)
    IN  /\ omit => URL = <<scheme, "://", host>>
        /\ ~omit => URL = <<scheme, "://", host, ":", ToString(Port)>>

\* A plain Server bound to 443: the https default port under http keeps
\* its suffix.
C2_Witness_HttpOn443 ==
    /\ lastOp = "Open"
    /\ result = "nil"
    /\ Domain = ""
    /\ Port = 443
    /\ URL = <<"http", "://", "localhost", ":", "443">>

\* The Server has a listener whose socket is bound to the port Port()
\* returns.
PortIsBoundPort ==
    /\ ln # 0
    /\ lns[ln].sock # 0
    /\ Port = lns[ln].sock

\* C7 as stated: Port() is 0 if the Server was never opened, and otherwise
\* the actual port bound by the listener.
C7_Original_PortIsBoundPort ==
    /\ lns = <<>> => Port = 0
    /\ lns # <<>> /\ pc = "idle" => PortIsBoundPort

\* C7, amended: Port() is 0 if the Server was never opened or if its last
\* Open failed to bind; after an Open that returned nil it is the port the
\* listener of that Open reports: the port its socket is bound to, and 443
\* for a TLS listener that has no socket because its bind of :443 failed.
C7_PortOfListener ==
    /\ lns = <<>> => Port = 0
    /\ pc = "idle" /\ lastOp = "Open" /\ result = "BindError" => Port = 0
    /\ pc = "idle" /\ lastOp = "Open" /\ result = "nil" =>
          /\ ln = Len(lns)
          /\ lns[ln].sock # 0 => Port = lns[ln].sock
          /\ lns[ln].sock = 0 => lns[ln].kind = "tls" /\ Port = 443
          /\ lns[ln].kind = "tcp" /\ AddrPort(Addr) # 0 => Port = AddrPort(Addr)
          /\ lns[ln].kind = "tcp" /\ AddrPort(Addr) = 0 => Port \in EphemeralPorts

\* Open returned nil on a plain Server with the empty address: the port is
\* one the system picked.
C7_Witness_EphemeralPort ==
    /\ pc = "idle"
    /\ lastOp = "Open"
    /\ result = "nil"
    /\ Addr = ""
    /\ lns[ln].kind = "tcp"
    /\ Port = 49153

\* C8: s.ln is written before Open returns: once Open() with the empty
\* Address and the empty Domain has returned nil, Port() is nonzero,
\* wherever the spawned serve loop has got to.
C8_PortNonzeroAfterOpen ==
    pc = "idle" /\ lastOp = "Open" /\ result = "nil" /\ Addr = "" /\ Domain = ""
        => Port # 0 /\ Port \in EphemeralPorts

\* Open has just returned nil and the serve loop it spawned has not run.
C8_Witness_ServeNotStarted ==
    /\ pc = "idle"
    /\ lastOp = "Open"
    /\ result = "nil"
    /\ Addr = ""
    /\ Domain = ""
    /\ serve[ln] = "spawned"
    /\ Port # 0

\* The first step of a call of Open.
OpenFirstStep == OpenListenTLS \/ OpenListenPlain \/ OpenListenFail

\* C9: with an empty Domain and an Address that is invalid or in use,
\* Open() returns a bind error to its caller at once, spawns no serve loop,
\* and leaves Port() at 0 on a Server not opened before.
C9_BindErrorIsSynchronous ==
    [][ (Domain = "" /\ ListenPorts(Addr) = {} /\ OpenFirstStep) =>
            /\ pc' = "idle"
            /\ lastOp' = "Open"
            /\ result' = "BindError"
            /\ serve' = serve
            /\ lns' = lns
            /\ lns = <<>> => Port' = 0 ]_vars

\* Open failed on a fresh Server because another process holds the port.
C9_Witness_PortInUse ==
    /\ lastOp = "Open"
    /\ result = "BindError"
    /\ Addr = ":80"
    /\ other = 80
    /\ lns = <<>>
    /\ Port = 0

----------------------------------------------------------------------------
(* Properties of the normaliser (checked under SpecNormalizer).            *)

Dispatched == routed # NoRequest

EndsWith(p, suffix) ==
    /\ Len(p) >= Len(suffix)
    /\ \A k \in 1..Len(suffix) : p[Len(p) - Len(suffix) + k] = suffix[k]

OverrideValues == {"GET", "POST", "PATCH", "DELETE"}

\* C3: the method the request is routed with is the value of the form field
\* _method if the request is a POST and the value is one of GET, POST,
\* PATCH, DELETE; a POST with another value, or none, is routed as POST; a
\* request that is not a POST keeps its method whatever _method holds. So
\* the method changes only by the override.
C3_MethodOverride ==
    Dispatched =>
        LET v == PostFormValue(req)
        IN  /\ req.Method = "POST" /\ v \in OverrideValues => routed.Method = v
            /\ req.Method = "POST" /\ v \notin OverrideValues => routed.Method = "POST"
            /\ req.Method # "POST" => routed.Method = req.Method
            /\ routed.Method # req.Method =>
                  req.Method = "POST" /\ v \in OverrideValues /\ routed.Method = v

\* A POST carrying _method=DELETE has been routed as DELETE.
C3_Witness_PostAsDelete ==
    /\ Dispatched
    /\ req.Method = "POST"
    /\ PostFormValue(req) = "DELETE"
    /\ routed.Method = "DELETE"

\* C4: a request whose path ends with .json reaches the router with Accept
\* and Content-Type application/json and with its path less the trailing
\* .json.
C4_JsonSuffix ==
    Dispatched /\ EndsWith(req.Path, <<".", "json">>) =>
        /\ routed.Accept = "application/json"
        /\ routed.ContentType = "application/json"
        /\ routed.Path \o <<".", "json">> = req.Path

\* /x.json sent with a form Content-Type.
C4_Witness_ReportJson ==
    /\ Dispatched
    /\ req.Path = <<"/", "x", ".", "json">>
    /\ req.ContentType = FormContentType
    /\ routed.Path = <<"/", "x">>
    /\ routed.ContentType = "application/json"

\* C5: a request whose path ends with .csv reaches the router with Accept
\* text/csv, with the Content-Type it arrived with (present or absent), and
\* with its path less the trailing .csv.
C5_CsvSuffix ==
    Dispatched /\ EndsWith(req.Path, <<".", "csv">>) =>
        /\ routed.Accept = "text/csv"
        /\ routed.ContentType = req.ContentType
        /\ routed.Path \o <<".", "csv">> = req.Path

\* /x.csv sent without a Content-Type.
C5_Witness_ReportCsv ==
    /\ Dispatched
    /\ req.Path = <<"/", "x", ".", "csv">>
    /\ req.ContentType = Absent
    /\ routed.Path = <<"/", "x">>
    /\ routed.Accept = "text/csv"
    /\ routed.ContentType = Absent

\* C6: the normaliser never fails and leaves what it does not match alone:
\* every inbound request can be dispatched, and one whose path ends with
\* neither .json nor .csv reaches the router with the path, the Accept
\* header and the Content-Type header it arrived with.
C6_UnmatchedUnchanged ==
    /\ ~Dispatched => ENABLED Dispatch
    /\ ( /\ Dispatched
         /\ ~EndsWith(req.Path, <<".", "json">>)
         /\ ~EndsWith(req.Path, <<".", "csv">>) ) =>
           /\ routed.Path = req.Path
           /\ routed.Accept = req.Accept
           /\ routed.ContentType = req.ContentType

\* A path with an extension the normaliser does not know, /json.x
C6_Witness_UnknownExtension ==
    /\ Dispatched
    /\ req.Path = <<"/", "json", ".", "x">>
    /\ req.Accept = "text/html"
    /\ routed.Path = req.Path
    /\ routed.Accept = "text/html"

----------------------------------------------------------------------------
(* Properties of Close and of the serve loop (checked under Spec).         *)

\* The step on which Close returns to its caller.
CloseReturns == pc = "close_wait" /\ pc' = "idle"

\* A request was in flight when the Close that is returning began.
InFlightAtClose == active > 0 \/ doneAt # -1

\* C11 as stated: Close() called with a request in flight returns nil if
\* the request completes within ShutdownTimeout, and a ShutdownError if it
\* does not.
C11_Original_NilIfInTime ==
    [][ CloseReturns /\ InFlightAtClose =>
            IF active = 0 /\ doneAt < ShutdownTimeout
            THEN result' = "nil"
            ELSE result' = "DeadlineExceeded" ]_vars

\* C11, amended: Close() called with a request in flight returns nil only
\* after the request has finished, and a ShutdownError only once
\* ShutdownTimeout has elapsed; it returns a ShutdownError if the request is
\* still in flight at the deadline, and may do so as well for a request
\* that finished within ShutdownTimeout but after the last poll Shutdown
\* made before the deadline. Close() never waits past the deadline.
C11_CloseDrainsOrTimesOut ==
    /\ [][ CloseReturns /\ InFlightAtClose =>
              /\ result' \in {closeErr, "DeadlineExceeded"}
              /\ result' # "DeadlineExceeded" => active = 0
              /\ result' = "DeadlineExceeded" => polledBusy /\ now = ShutdownTimeout
              /\ active > 0 => result' = "DeadlineExceeded"
              /\ ~polledBusy => result' = closeErr ]_vars
    /\ [](pc = "close_wait" =>
              /\ now <= ShutdownTimeout
              /\ now = ShutdownTimeout => ENABLED CloseTimeout)

\* The request finished within ShutdownTimeout, after the poll that found
\* it in flight, and Close returned the error of the context.
C11_Witness_FinishedInTimeYetError ==
    /\ pc = "idle"
    /\ lastOp = "Close"
    /\ result = "DeadlineExceeded"
    /\ active = 0
    /\ doneAt = 0
    /\ now = ShutdownTimeout

\* C12: Close() on a Server that has no listener, because Open was never
\* called or because it failed, returns nil at once: it has nothing to wait
\* for and no time passes.
C12_CloseUnopenedReturns ==
    /\ pc = "close_wait" /\ lns = <<>> =>
          /\ active = 0
          /\ now = 0
          /\ ~polledBusy
          /\ ENABLED CloseReturn
    /\ pc = "idle" /\ lastOp = "Close" /\ lns = <<>> =>
          /\ result = "nil"
          /\ now = 0
          /\ Port = 0

\* Close has returned on a Server whose address cannot be bound.
C12_Witness_ClosedUnopened ==
    /\ pc = "idle"
    /\ lastOp = "Close"
    /\ lns = <<>>
    /\ Addr = "bad"
    /\ result = "nil"

\* C13: once Close() has begun, no new connection is accepted: the
\* listeners registered with the server are closed and the number of
\* connections in flight only falls.
C13_NoAcceptAfterClose ==
    /\ [][inShutdown => active' <= active]_vars
    /\ [](inShutdown => \A i \in DOMAIN lns : Tracked(i) => lns[i].closed)

\* Close is waiting on an open Server with a connection in flight.
C13_Witness_ClosingWithRequest ==
    /\ pc = "close_wait"
    /\ inShutdown
    /\ active > 0
    /\ \E i \in DOMAIN lns : Tracked(i)

\* C14 as stated: when Close() has returned a ShutdownError, no request is
\* still being served.
C14_Original_ForcedTermination ==
    pc = "idle" /\ lastOp = "Close" /\ result = "DeadlineExceeded" => active = 0

\* C14, amended: when requests in flight have not finished after
\* ShutdownTimeout, Close() returns a ShutdownError without terminating
\* them: they are still being served when Close() has returned, and end
\* only when their handlers return.
C14_TimeoutLeavesRequests ==
    [][ /\ CloseReturns /\ result' = "DeadlineExceeded" =>
              active' = active /\ lns' = lns /\ serve' = serve
        /\ active' < active => active' = active - 1 /\ pc' = pc ]_vars

\* Close has returned a ShutdownError and a request is still served.
C14_Witness_StillServing ==
    /\ pc = "idle"
    /\ lastOp = "Close"
    /\ result = "DeadlineExceeded"
    /\ active > 0

\* A step of a goroutine running http.Server.Serve.
ServeLoopStep ==
    \E i \in DOMAIN serve :
        \/ ServeStart(i)
        \/ ServeAcceptError(i)
        \/ \E r \in SampleRequests : ServeAccept(i, r)

\* A listener that has no socket.
Broken(i) == lns[i].kind = "tls" /\ lns[i].sock = 0

\* C18: Open() does not wait for the serve loop: once the listener exists
\* it spawns the loop and returns nil; no step of the loop, its failing
\* included, changes what Open returned or anything a Server operation
\* returns to the caller.
C18_ServeErrorsUnobserved ==
    /\ [][ /\ ServeLoopStep =>
                 /\ pc' = pc
                 /\ lastOp' = lastOp
                 /\ result' = result
                 /\ closeErr' = closeErr
                 /\ ln' = ln
           /\ pc = "open_return" /\ pc' # pc =>
                 result' = "nil" /\ serve' = serve ]_vars
    /\ [](pc = "open_return" => ENABLED OpenReturn)
    /\ [](pc = "close_wait" /\ closeErr # "nil" =>
             \E i \in DOMAIN lns : Broken(i) /\ serve[i] # "failed")

\* The serve loop has failed, and Open and a later Close have both
\* returned nil.
C18_Witness_FailedLoopCloseNil ==
    /\ pc = "idle"
    /\ lastOp = "Close"
    /\ result = "nil"
    /\ ln # 0
    /\ serve[ln] = "failed"

\* C20: once Close() has been called, the Server never serves again: a
\* later Open() with an address that can be bound returns nil and Port()
\* reports the port of the new listener, but the serve loop of that
\* listener never registers it, and no request is accepted.
C20_ClosedIsTerminal ==
    /\ [](pc = "idle" /\ lastOp = "Open" /\ result = "nil" /\ inShutdown
              /\ Domain = "" =>
              /\ ln = Len(lns)
              /\ Port = lns[ln].sock
              /\ Port # 0
              /\ serve[ln] \in {"spawned", "closed"})
    /\ [](pc = "idle" /\ inShutdown /\ Domain = "" /\ ListenPorts(Addr) # {} =>
              ~ENABLED OpenListenFail)
    /\ [][inShutdown =>
              /\ \A i \in DOMAIN serve' :
                    serve'[i] = "accepting" => i \in DOMAIN serve /\ Tracked(i)
              /\ req' = req
              /\ routerCalls' = routerCalls ]_vars

\* Open after Close: it returned nil, Port() reports port 80, and the serve
\* loop has ended, closing the listener.
C20_Witness_ReopenedServesNothing ==
    /\ pc = "idle"
    /\ lastOp = "Open"
    /\ result = "nil"
    /\ inShutdown
    /\ Len(lns) = 2
    /\ serve[ln] = "closed"
    /\ lns[ln].closed
    /\ Port = 80

----------------------------------------------------------------------------
(* The order of the rewrites (checked under SpecNormalizer).               *)

\* The form field _method as the request carries it on arrival.
ArrivedOverride ==
    IF req.Method = "POST" /\ req.ContentType = FormContentType
    THEN req.BodyMethod
    ELSE ""

\* C19: a request is normalized once and the router is called once, with
\* the result. The method override reads the request as it arrived, before
\* the suffix rewrite replaces its Content-Type; the suffix rewrite strips
\* one trailing suffix only. So a POST with _method=DELETE to /x.json is
\* routed as DELETE /x with Accept and Content-Type application/json, and
\* /x.csv.json is routed as /x.csv.
C19_OverrideThenOneSuffix ==
    Dispatched =>
        /\ routerCalls = 1
        /\ routed.Method = IF ArrivedOverride \in OverrideValues
                           THEN ArrivedOverride
                           ELSE req.Method
        /\ EndsWith(req.Path, <<".", "csv", ".", "json">>) =>
              /\ routed.Path \o <<".", "json">> = req.Path
              /\ EndsWith(routed.Path, <<".", "csv">>)
              /\ routed.Accept = "application/json"
              /\ routed.ContentType = "application/json"
        /\ EndsWith(req.Path, <<".", "json", ".", "csv">>) =>
              /\ routed.Path \o <<".", "csv">> = req.Path
              /\ EndsWith(routed.Path, <<".", "json">>)
              /\ routed.Accept = "text/csv"
              /\ routed.ContentType = req.ContentType
        /\ ( /\ req.Method = "POST"
             /\ req.BodyMethod = "DELETE"
             /\ req.ContentType = FormContentType
             /\ req.Path = <<"/", "x", ".", "json">> ) =>
              /\ routed.Method = "DELETE"
              /\ routed.Path = <<"/", "x">>
              /\ routed.Accept = "application/json"
              /\ routed.ContentType = "application/json"

\* A POST with _method=DELETE to /x.csv.json, routed as DELETE /x.csv.
C19_Witness_DeleteCsvJson ==
    /\ Dispatched
    /\ routerCalls = 1
    /\ req.Method = "POST"
    /\ req.BodyMethod = "DELETE"
    /\ req.ContentType = FormContentType
    /\ req.Path = <<"/", "x", ".", "csv", ".", "json">>
    /\ routed.Method = "DELETE"
    /\ routed.Path = <<"/", "x", ".", "csv">>
    /\ routed.ContentType = "application/json"

----------------------------------------------------------------------------
(* The host process: func main, Main.Run and Main.Close of the two main    *)
(* packages. "workshop" owns a Server only; "betwiz" reads a configuration *)
(* file, owns a database connection as well and, with a Domain, runs a     *)
(* listener that redirects plain HTTP to TLS.                              *)

Programs == {"workshop", "betwiz"}

libVars == <<serverVars, req, routed, routerCalls, clockVars>>

Running == hpc # "exited"

InitHost ==
    /\ ServerInit
    /\ ClockInit
    /\ req = NoRequest
    /\ routed = NoRequest
    /\ routerCalls = 0
    /\ prog \in Programs
    /\ hpc = IF prog = "betwiz" THEN "parse" ELSE "open"
    /\ HostInit

\* An interrupt is sent to the process. signal.Notify sends on c without
\* blocking: a signal that finds the buffer of c full is dropped.
Interrupt ==
    /\ Running
    /\ interrupts < MaxInterrupts
    /\ interrupts' = interrupts + 1
    /\ c' = 1
    /\ UNCHANGED <<prog, hpc, sigpc, ctxDone, runErr, mcResult, exitCode,
                   mainCloseCalls, srvCloseCalls, dbCloseCalls, db, redirect>>
    /\ UNCHANGED libVars

\* go func() { <-c; cancel() }()
SignalHandler ==
    /\ Running
    /\ sigpc = "waiting"
    /\ c = 1
    /\ c' = 0
    /\ sigpc' = "done"
    /\ ctxDone' = TRUE
    /\ UNCHANGED <<prog, hpc, interrupts, runErr, mcResult, exitCode,
                   mainCloseCalls, srvCloseCalls, dbCloseCalls, db, redirect>>
    /\ UNCHANGED libVars

\* m.ParseFlags returns an error: os.Exit(1).
ParseFlagsFail ==
    /\ hpc = "parse"
    /\ hpc' = "exited"
    /\ exitCode' = 1
    /\ UNCHANGED <<prog, c, sigpc, interrupts, ctxDone, runErr, mcResult,
                   mainCloseCalls, srvCloseCalls, dbCloseCalls, db, redirect>>
    /\ UNCHANGED libVars

ParseFlagsOk ==
    /\ hpc = "parse"
    /\ hpc' = "run"
    /\ UNCHANGED <<prog, c, sigpc, interrupts, ctxDone, runErr, mcResult,
                   exitCode, mainCloseCalls, srvCloseCalls, dbCloseCalls, db,
                   redirect>>
    /\ UNCHANGED libVars

\* Main.Run of betwiz: expandDSN or m.DB.Open fails.
RunDBFail ==
    /\ hpc = "run"
    /\ runErr' = "DBError"
    /\ hpc' = "run_failed"
    /\ UNCHANGED <<prog, c, sigpc, interrupts, ctxDone, mcResult, exitCode,
                   mainCloseCalls, srvCloseCalls, dbCloseCalls, db, redirect>>
    /\ UNCHANGED libVars

RunDBOpen ==
    /\ hpc = "run"
    /\ db' = "open"
    /\ hpc' = "config"
    /\ UNCHANGED <<prog, c, sigpc, interrupts, ctxDone, runErr, mcResult,
                   exitCode, mainCloseCalls, srvCloseCalls, dbCloseCalls,
                   redirect>>
    /\ UNCHANGED libVars

\* Main.Run of betwiz copies the configuration to the Server.
RunConfigure(a, d) ==
    /\ hpc = "config"
    /\ Addr' = a
    /\ Domain' = d
    /\ hpc' = "open"
    /\ UNCHANGED <<prog, c, sigpc, interrupts, ctxDone, runErr, mcResult,
                   exitCode, mainCloseCalls, srvCloseCalls, dbCloseCalls, db,
                   redirect>>
    /\ UNCHANGED <<ln, lns, serve, inShutdown, active, other, pc, lastOp,
                   result, closeErr, polledBusy, req, routed, routerCalls>>
    /\ UNCHANGED clockVars

\* m.HTTPServer.Open() creates its listener.
RunOpenListen ==
    /\ hpc = "open"
    /\ OpenListenTLS \/ OpenListenPlain
    /\ hpc' = "in_open"
    /\ UNCHANGED <<prog, c, sigpc, interrupts, ctxDone, runErr, mcResult,
                   exitCode, mainCloseCalls, srvCloseCalls, dbCloseCalls, db,
                   redirect>>

\* m.HTTPServer.Open() returns an error, and Main.Run returns it.
RunOpenFail ==
    /\ hpc = "open"
    /\ OpenListenFail
    /\ runErr' = "BindError"
    /\ hpc' = "run_failed"
    /\ UNCHANGED <<prog, c, sigpc, interrupts, ctxDone, mcResult, exitCode,
                   mainCloseCalls, srvCloseCalls, dbCloseCalls, db, redirect>>

RunOpenSpawn ==
    /\ hpc = "in_open"
    /\ OpenSpawn
    /\ UNCHANGED hostVars

\* m.HTTPServer.Open() returns nil; Main.Run starts the redirect listener
\* if the Server uses TLS, and returns nil.
RunOpenReturn ==
    /\ hpc = "in_open"
    /\ OpenReturn
    /\ runErr' = "nil"
    /\ redirect' = IF prog = "betwiz" /\ UseTLS THEN "running" ELSE redirect
    /\ hpc' = "wait"
    /\ UNCHANGED <<prog, c, sigpc, interrupts, ctxDone, mcResult, exitCode,
                   mainCloseCalls, srvCloseCalls, dbCloseCalls, db>>

\* log.Fatal(http.ListenAndServeTLSRedirect(...)): the redirect listener
\* returns, which it does only with an error, and the process exits.
RedirectFatal ==
    /\ Running
    /\ redirect = "running"
    /\ redirect' = "failed"
    /\ hpc' = "exited"
    /\ exitCode' = 1
    /\ UNCHANGED <<prog, c, sigpc, interrupts, ctxDone, runErr, mcResult,
                   mainCloseCalls, srvCloseCalls, dbCloseCalls, db>>
    /\ UNCHANGED libVars

\* func main, Run having failed: m.Close()
mainRunFailed ==
    /\ hpc = "run_failed"
    /\ mainCloseCalls' = mainCloseCalls + 1
    /\ hpc' = "main_close"
    /\ UNCHANGED <<prog, c, sigpc, interrupts, ctxDone, runErr, mcResult,
                   exitCode, srvCloseCalls, dbCloseCalls, db, redirect>>
    /\ UNCHANGED libVars

\* func main leaving Run at once, without <-ctx.Done().
mainWait_NoWait ==
    /\ hpc = "wait"
    /\ mainCloseCalls' = mainCloseCalls + 1
    /\ hpc' = "main_close"
    /\ UNCHANGED <<prog, c, sigpc, interrupts, ctxDone, runErr, mcResult,
                   exitCode, srvCloseCalls, dbCloseCalls, db, redirect>>
    /\ UNCHANGED libVars

\* func main: <-ctx.Done(), then m.Close()
mainWait ==
    /\ hpc = "wait"
    /\ ctxDone
    /\ mainCloseCalls' = mainCloseCalls + 1
    /\ hpc' = "main_close"
    /\ UNCHANGED <<prog, c, sigpc, interrupts, ctxDone, runErr, mcResult,
                   exitCode, srvCloseCalls, dbCloseCalls, db, redirect>>
    /\ UNCHANGED libVars

\* Main.Close: m.HTTPServer.Close() is called.
MainCloseServer ==
    /\ hpc = "main_close"
    /\ CloseBegin
    /\ srvCloseCalls' = srvCloseCalls + 1
    /\ hpc' = "srv_close"
    /\ UNCHANGED <<prog, c, sigpc, interrupts, ctxDone, runErr, mcResult,
                   exitCode, mainCloseCalls, dbCloseCalls, db, redirect>>

MainCloseServerPoll ==
    /\ hpc = "srv_close"
    /\ ClosePollBusy
    /\ UNCHANGED hostVars

\* m.HTTPServer.Close() returns. Main.Close returns its error if it has
\* one; otherwise betwiz goes on to its database and workshop returns nil.
MainCloseServerReturn ==
    /\ hpc = "srv_close"
    /\ CloseReturn \/ CloseTimeout
    /\ mcResult' = IF result' # "nil" THEN result'
                   ELSE IF prog = "betwiz" THEN mcResult ELSE "nil"
    /\ hpc' = IF result' = "nil" /\ prog = "betwiz" THEN "db_close"
              ELSE "main_closed"
    /\ UNCHANGED <<prog, c, sigpc, interrupts, ctxDone, runErr, exitCode,
                   mainCloseCalls, srvCloseCalls, dbCloseCalls, db, redirect>>

\* Main.Close of betwiz: m.DB.Close(), and its result returned.
MainCloseDB(e) ==
    /\ hpc = "db_close"
    /\ dbCloseCalls' = dbCloseCalls + 1
    /\ db' = "closed"
    /\ mcResult' = e
    /\ hpc' = "main_closed"
    /\ UNCHANGED <<prog, c, sigpc, interrupts, ctxDone, runErr, exitCode,
                   mainCloseCalls, srvCloseCalls, redirect>>
    /\ UNCHANGED libVars

\* func main exiting 0 whatever Main.Close returned at shutdown.
mainExit_IgnoresCloseError ==
    /\ hpc = "main_closed"
    /\ exitCode' = IF runErr # "nil" THEN 1 ELSE 0
    /\ hpc' = "exited"
    /\ UNCHANGED <<prog, c, sigpc, interrupts, ctxDone, runErr, mcResult,
                   mainCloseCalls, srvCloseCalls, dbCloseCalls, db, redirect>>
    /\ UNCHANGED libVars

\* func main after m.Close(): os.Exit(1) if Run had failed or if Close
\* returned an error; otherwise main returns.
mainExit ==
    /\ hpc = "main_closed"
    /\ exitCode' = IF runErr # "nil" \/ mcResult # "nil" THEN 1 ELSE 0
    /\ hpc' = "exited"
    /\ UNCHANGED <<prog, c, sigpc, interrupts, ctxDone, runErr, mcResult,
                   mainCloseCalls, srvCloseCalls, dbCloseCalls, db, redirect>>
    /\ UNCHANGED libVars

\* The steps of func main's goroutine.
MainStep ==
    \/ ParseFlagsFail
    \/ ParseFlagsOk
    \/ RunDBFail
    \/ RunDBOpen
    \/ \E a \in Addrs, d \in Domains : RunConfigure(a, d)
    \/ RunOpenListen
    \/ RunOpenFail
    \/ RunOpenSpawn
    \/ RunOpenReturn
    \/ mainRunFailed
    \/ mainWait
    \/ MainCloseServer
    \/ MainCloseServerPoll
    \/ MainCloseServerReturn
    \/ \E e \in {"nil", "DBError"} : MainCloseDB(e)
    \/ mainExit

\* Time passes while the process runs.
HostTick == Running /\ Tick /\ UNCHANGED hostVars

NextHost ==
    \/ MainStep
    \/ Interrupt
    \/ SignalHandler
    \/ RedirectFatal
    \/ HostTick
    \/ \E i \in DOMAIN serve : Running /\ ServeStart(i) /\ UNCHANGED hostVars
    \/ \E i \in DOMAIN serve, r \in SampleRequests :
          Running /\ ServeAccept(i, r) /\ UNCHANGED hostVars
    \/ \E i \in DOMAIN serve :
          Running /\ ServeAcceptError(i) /\ UNCHANGED hostVars
    \/ Running /\ Finish /\ UNCHANGED hostVars

\* The goroutines of the process are scheduled fairly, and time passes.
SpecHost ==
    /\ InitHost
    /\ [][NextHost]_vars
    /\ WF_vars(MainStep)
    /\ WF_vars(SignalHandler)
    /\ WF_vars(HostTick)

----------------------------------------------------------------------------
(* Properties of the host process (checked under SpecHost).                *)

\* Main.Run returned an error.
StartupFailed == runErr \notin {"none", "nil"}

\* HTTPServer.Close, called at shutdown, has returned an error.
ShutdownFailed ==
    /\ runErr = "nil"
    /\ pc = "idle"
    /\ lastOp = "Close"
    /\ result # "nil"

\* C15: an error of Server.Open, returned by Run, and an error of
\* Server.Close, returned by Main.Close at shutdown, both end the process
\* with a non-zero status; after a failed Run, Main.Close is called before
\* the process exits. The process exits 0 only if Run and Server.Close
\* both returned nil.
C15_ErrorsAreFatal ==
    /\ [](hpc = "exited" /\ StartupFailed =>
              exitCode = 1 /\ mainCloseCalls = 1)
    /\ [](hpc = "exited" /\ ShutdownFailed => exitCode = 1)
    /\ [](exitCode = 0 =>
              /\ runErr = "nil"
              /\ lastOp = "Close"
              /\ result = "nil")
    /\ [](runErr = "BindError" => result = "BindError" \/ lastOp = "Close")
    /\ (StartupFailed ~> hpc = "exited")
    /\ (ShutdownFailed ~> hpc = "exited")

\* The address of the configuration is in use: Open failed, Main.Close was
\* called and the process has exited 1.
C15_Witness_BindErrorExit ==
    /\ hpc = "exited"
    /\ runErr = "BindError"
    /\ Addr = ":80"
    /\ other = 80
    /\ mainCloseCalls = 1
    /\ srvCloseCalls = 1
    /\ exitCode = 1

\* C16 as stated: once Run has succeeded, Server.Close is not called
\* before an interrupt is received, and after an interrupt is received it
\* is eventually called, exactly once.
C16_Original_InterruptThenClose ==
    /\ [](runErr = "nil" /\ srvCloseCalls > 0 => interrupts > 0 /\ ctxDone)
    /\ [](srvCloseCalls <= 1)
    /\ (runErr = "nil" /\ interrupts > 0 ~> srvCloseCalls = 1)

\* C16, amended: once Run has succeeded, Server.Close is not called before
\* an interrupt is received and is called at most once; after an interrupt
\* is received it is eventually called, unless the process is ended first
\* by log.Fatal because the listener that redirects to TLS has failed. A
\* process that started ends without calling Server.Close in that case
\* only.
C16_InterruptThenCloseUnlessFatal ==
    /\ [](runErr = "nil" /\ srvCloseCalls > 0 => interrupts > 0 /\ ctxDone)
    /\ [](srvCloseCalls <= 1)
    /\ [](hpc = "exited" /\ runErr = "nil" /\ srvCloseCalls = 0 =>
              redirect = "failed")
    /\ (runErr = "nil" /\ interrupts > 0 ~>
            srvCloseCalls = 1 \/ redirect = "failed")

\* Two interrupts were sent after a start that succeeded; Server.Close was
\* called once and the process has exited 0.
C16_Witness_TwoInterruptsOneClose ==
    /\ hpc = "exited"
    /\ runErr = "nil"
    /\ interrupts = 2
    /\ sigpc = "done"
    /\ srvCloseCalls = 1
    /\ exitCode = 0

\* C17: when Main.Close of betwiz has returned, HTTPServer.Close and
\* DB.Close have both been called, whatever HTTPServer.Close returned.
C17_MainCloseClosesBoth ==
    hpc = "main_closed" /\ prog = "betwiz" =>
        srvCloseCalls = 1 /\ dbCloseCalls = 1

====
